---- MODULE Spec2Model ----
(***************************************************************************)
(* Model of the HTML pruning pipeline of clear_add_deleted.py (and of the  *)
(* functions it shares with clear_hp.py).                                  *)
(*                                                                         *)
(* A document is the lxml tree the code works on.  Nodes carry stable      *)
(* identities 1..n numbered in document order at parse time; par[i] is the *)
(* current parent of node i (0: no parent).  parent.remove(e) sets         *)
(* par[e] to 0: e keeps its own subtree and, as in lxml, takes its tail    *)
(* text with it.  soup is the node html.fromstring returned; it is the     *)
(* root of the document for a full page, and otherwise an element that is  *)
(* still attached below the parser's html (and body) wrapper elements.     *)
(* Texts are sequences of one-character strings.                           *)
(***************************************************************************)
EXTENDS Integers, Sequences, FiniteSets, TLC

VARIABLES pc, ref, tgt, snap, res, data, idx, updated_data, hist

vars == <<pc, ref, tgt, snap, res, data, idx, updated_data, hist>>

\* Largest number of nodes of a generated document (the parser's wrapper
\* elements excluded): of the tree given to the Emptiness Pruner, and of the
\* target tree of the other tree operations.
MaxPruneNodes == 4
MaxNodes == 3

\* Python's None where a tree is expected: the document without nodes.
None == [par |-> <<>>, nd |-> <<>>, soup |-> 0]

-----------------------------------------------------------------------------
(* Sequences and texts *)

RECURSIVE SortedSeq(_)
SortedSeq(S) ==
    IF S = {} THEN <<>>
    ELSE LET m == CHOOSE x \in S : \A y \in S : x <= y
         IN <<m>> \o SortedSeq(S \ {m})

RECURSIVE Reverse(_)
Reverse(s) == IF s = <<>> THEN <<>> ELSE Reverse(Tail(s)) \o <<Head(s)>>

RECURSIVE Join(_)
Join(ss) == IF ss = <<>> THEN <<>> ELSE Head(ss) \o Join(Tail(ss))

IsSpace(c) == c = " "

RECURSIVE LStrip(_)
LStrip(s) == IF s # <<>> /\ IsSpace(Head(s)) THEN LStrip(Tail(s)) ELSE s

RECURSIVE RStrip(_)
RStrip(s) ==
    IF s # <<>> /\ IsSpace(s[Len(s)]) THEN RStrip(SubSeq(s, 1, Len(s) - 1)) ELSE s

Strip(s) == RStrip(LStrip(s))

EndsWith(s, t) ==
    /\ Len(t) <= Len(s)
    /\ SubSeq(s, Len(s) - Len(t) + 1, Len(s)) = t

Contains(s, t) ==
    \E i \in 0..(Len(s) - Len(t)) : SubSeq(s, i + 1, i + Len(t)) = t

-----------------------------------------------------------------------------
(* The tree *)

NodeOf(kind, tag, attr, text, tail) ==
    [kind |-> kind, tag |-> tag, attr |-> attr, text |-> text, tail |-> tail]

Elem(tag, attr, text, tail) == NodeOf("elem", tag, attr, text, tail)
Comment(tail) == NodeOf("comment", "", {}, <<>>, tail)

Ids(d) == DOMAIN d.par

IsElement(d, e) == d.nd[e].kind = "elem"

Kids(d, p) == {i \in Ids(d) : d.par[i] = p}

getparent(d, e) == d.par[e]

RECURSIVE InSubtree(_, _, _)
InSubtree(d, e, i) == i = e \/ (d.par[i] # 0 /\ InSubtree(d, e, d.par[i]))

Desc(d, e) == {i \in Ids(d) : InSubtree(d, e, i)}

RECURSIVE RootOf(_, _)
RootOf(d, e) == IF d.par[e] = 0 THEN e ELSE RootOf(d, d.par[e])

Remove(d, e) == [d EXCEPT !.par[e] = 0]

Iter(d, e) == SortedSeq(Desc(d, e))

XPathAll(d) == SortedSeq({i \in Desc(d, RootOf(d, d.soup)) : IsElement(d, i)})

RECURSIVE text_content(_, _)
RECURSIVE KidsText(_, _)
text_content(d, e) == d.nd[e].text \o KidsText(d, SortedSeq(Kids(d, e)))
KidsText(d, ks) ==
    IF ks = <<>> THEN <<>>
    ELSE LET k == Head(ks)
         IN (IF IsElement(d, k) THEN text_content(d, k) ELSE <<>>)
                \o d.nd[k].tail \o KidsText(d, Tail(ks))

StrippedText(d, e) == Strip(text_content(d, e))

-----------------------------------------------------------------------------
(* The trees html.fromstring returns *)

HtmlWrapper == Elem("html", {}, <<>>, <<>>)
BodyWrapper == Elem("body", {}, <<>>, <<>>)

Wrappers(w) ==
    IF w = 0 THEN <<>> ELSE IF w = 1 THEN <<HtmlWrapper>>
    ELSE <<HtmlWrapper, BodyWrapper>>

\* The tree html.fromstring builds for content whose own markup is `core`:
\* w = 0 a full page (the root is returned), w = 1 several top-level nodes
\* (the parser's body, retagged, is returned, still below html), w = 2 a
\* single top-level element (returned still below html and body).
Wrap(core, w) ==
    LET n == Len(core.par)
    IN [par  |-> [i \in 1..(n + w) |->
                     IF i <= w THEN i - 1 ELSE core.par[i - w] + w],
        nd   |-> Wrappers(w) \o core.nd,
        soup |-> w + 1]


-----------------------------------------------------------------------------
(* remove_empty_elements *)

is_empty_element(d, e) ==
    IF d.nd[e].kind = "comment" THEN TRUE
    ELSE ~(StrippedText(d, e) # <<>> \/ Kids(d, e) # {} \/ d.nd[e].attr # {})

EmptyOrderForward(d) == Iter(d, d.soup)

EmptyOrder(d) == Reverse(Iter(d, d.soup))

RECURSIVE RemoveEmptyLoop(_, _)
RemoveEmptyLoop(d, es) ==
    IF es = <<>> THEN d
    ELSE LET e == Head(es)
         IN RemoveEmptyLoop(
                IF is_empty_element(d, e) /\ getparent(d, e) # 0
                THEN Remove(d, e) ELSE d,
                Tail(es))

remove_empty_elements(d) ==
    IF d = None THEN None ELSE RemoveEmptyLoop(d, EmptyOrder(d))

-----------------------------------------------------------------------------
(* html.tostring: the serialization, a sequence of tokens *)

Tok(k, tag, attr) == [k |-> k, tag |-> tag, attr |-> attr]

TextToks(s) == [i \in 1..Len(s) |-> Tok("chr", s[i], {})]

\* html.tostring(element) keeps lxml's default with_tail: the element's tail
\* text follows its closing tag.
RECURSIVE tostring(_, _)
RECURSIVE KidsHtml(_, _)
tostring(d, e) ==
    IF IsElement(d, e)
    THEN <<Tok("open", d.nd[e].tag, d.nd[e].attr)>>
            \o TextToks(d.nd[e].text)
            \o KidsHtml(d, SortedSeq(Kids(d, e)))
            \o <<Tok("close", d.nd[e].tag, {})>>
            \o TextToks(d.nd[e].tail)
    ELSE <<Tok("comment", "", {})>> \o TextToks(d.nd[e].tail)
KidsHtml(d, ks) ==
    IF ks = <<>> THEN <<>> ELSE tostring(d, Head(ks)) \o KidsHtml(d, Tail(ks))

\* What a removal function hands back: the tree it leaves, deleted_content,
\* and (for the properties) the removed nodes in removal order and the text
\* each visited node had when the loop reached it.
Outcome(d, deleted, removed, seen) ==
    [doc |-> d, deleted |-> deleted, removed |-> removed, seen |-> seen]

NoSeen == [i \in {} |-> <<>>]

-----------------------------------------------------------------------------
(* parse_html *)

\* The markup of a tree is read back token by token: an opening tag starts a
\* child of the innermost open element, text goes to the open element's text
\* until a child has been closed and to that child's tail afterwards.
ParseStep(acc, t) ==
    LET n == Len(acc.par)
        top == IF acc.stack = <<>> THEN 0 ELSE acc.stack[Len(acc.stack)]
    IN CASE t.k = "open" ->
              [par |-> Append(acc.par, top),
               nd |-> Append(acc.nd, Elem(t.tag, t.attr, <<>>, <<>>)),
               stack |-> Append(acc.stack, n + 1), last |-> 0]
         [] t.k = "comment" ->
              [par |-> Append(acc.par, top),
               nd |-> Append(acc.nd, Comment(<<>>)),
               stack |-> acc.stack, last |-> n + 1]
         [] t.k = "close" ->
              [acc EXCEPT !.stack = SubSeq(acc.stack, 1, Len(acc.stack) - 1),
                          !.last = top]
         [] OTHER ->
              IF acc.last # 0
              THEN [acc EXCEPT !.nd[acc.last].tail = Append(@, t.tag)]
              ELSE [acc EXCEPT !.nd[top].text = Append(@, t.tag)]

RECURSIVE ParseLoop(_, _)
ParseLoop(acc, toks) ==
    IF toks = <<>> THEN acc ELSE ParseLoop(ParseStep(acc, Head(toks)), Tail(toks))

ParseTokens(toks) ==
    LET acc == ParseLoop([par |-> <<>>, nd |-> <<>>, stack |-> <<>>, last |-> 0], toks)
    IN [par |-> acc.par, nd |-> acc.nd, soup |-> 1]

\* parse_html: None for empty or absent content; otherwise html.fromstring.
\* The contents of the records are fragments with a single top-level element,
\* for which html.fromstring returns that element, still below html and body.
parse_html(content) ==
    IF content = <<>> THEN None ELSE Wrap(ParseTokens(content), 2)

-----------------------------------------------------------------------------
(* remove_common_footers *)

Rule(tag, an, sub) == [tag |-> tag, an |-> an, sub |-> sub]

COMMON_FOOTERS_XPATH ==
    << Rule("footer", "", ""),
       Rule("div", "class", "footer"),
       Rule("div", "id", "footer"),
       Rule("div", "id", "bottom"),
       Rule("div", "class", "copyright"),
       Rule("div", "id", "copyright"),
       Rule("div", "id", "legal"),
       Rule("div", "id", "legal") >>

\* contains(@name, 'sub'): attribute values are sequences of words and a
\* substring is found when it is one of the words.
AttrContains(d, e, an, sub) ==
    \E a \in d.nd[e].attr : a[1] = an /\ \E i \in DOMAIN a[2] : a[2][i] = sub

Matches(d, e, rule) ==
    /\ IsElement(d, e)
    /\ d.nd[e].tag = rule.tag
    /\ rule.an # "" => AttrContains(d, e, rule.an, rule.sub)

\* soup.xpath('//...'): an absolute path, evaluated from the root of the tree
\* that holds soup, in document order.
XPath(d, rule) ==
    SortedSeq({i \in Desc(d, RootOf(d, d.soup)) : Matches(d, i, rule)})

RECURSIVE FooterElements(_, _)
FooterElements(o, es) ==
    IF es = <<>> THEN o
    ELSE LET e == Head(es)
         IN FooterElements(
                IF getparent(o.doc, e) # 0
                THEN Outcome(Remove(o.doc, e),
                             Append(o.deleted, tostring(o.doc, e)),
                             Append(o.removed, e), o.seen)
                ELSE o,
                Tail(es))

RECURSIVE FooterRules(_, _)
FooterRules(o, rules) ==
    IF rules = <<>> THEN o
    ELSE FooterRules(FooterElements(o, XPath(o.doc, Head(rules))), Tail(rules))

remove_common_footers(d) ==
    IF d # None THEN FooterRules(Outcome(d, <<>>, <<>>, NoSeen), COMMON_FOOTERS_XPATH)
    ELSE Outcome(d, <<>>, <<>>, NoSeen)

-----------------------------------------------------------------------------
(* remove_similar_elements *)

\* The keys of parent_text_dict.
parent_text_dict(r) ==
    {StrippedText(r, XPathAll(r)[i]) : i \in DOMAIN XPathAll(r)} \ {<<>>}

SimilarHitLeafOnly(d, e, keys) ==
    StrippedText(d, e) \in keys /\ getparent(d, e) # 0 /\ Kids(d, e) = {}

SimilarHit(d, e, keys) ==
    StrippedText(d, e) \in keys /\ getparent(d, e) # 0

RECURSIVE SimilarLoop(_, _, _)
SimilarLoop(o, es, keys) ==
    IF es = <<>> THEN o
    ELSE LET e == Head(es)
             seen == (e :> StrippedText(o.doc, e)) @@ o.seen
         IN SimilarLoop(
                IF SimilarHit(o.doc, e, keys)
                THEN Outcome(Remove(o.doc, e),
                             Append(o.deleted, tostring(o.doc, e)),
                             Append(o.removed, e), seen)
                ELSE Outcome(o.doc, o.deleted, o.removed, seen),
                Tail(es), keys)

remove_similar_elements(r, d) ==
    IF r # None /\ d # None
    THEN LET o == SimilarLoop(Outcome(d, <<>>, <<>>, NoSeen), XPathAll(d),
                              parent_text_dict(r))
         IN Outcome(remove_empty_elements(o.doc), o.deleted, o.removed, o.seen)
    ELSE Outcome(d, <<>>, <<>>, NoSeen)

-----------------------------------------------------------------------------
(* compare_endings *)

\* The string value of text(): the first text node among the element's own
\* text and the tails of its children.
RECURSIVE FirstNonEmpty(_)
FirstNonEmpty(ts) ==
    IF ts = <<>> THEN <<>>
    ELSE IF Head(ts) # <<>> THEN Head(ts) ELSE FirstNonEmpty(Tail(ts))

FirstText(d, e) ==
    LET ks == SortedSeq(Kids(d, e))
    IN FirstNonEmpty(<<d.nd[e].text>> \o [i \in DOMAIN ks |-> d.nd[ks[i]].tail])

\* //*[contains(text(), "child_text")]
XPathContainsText(d, t) ==
    SortedSeq({i \in Desc(d, RootOf(d, d.soup)) :
                  IsElement(d, i) /\ Contains(FirstText(d, i), t)})

\* Mutates (and reports on) its second argument.
compare_endings(p, c) ==
    IF p # None /\ c # None
    THEN LET parent_text == StrippedText(p, p.soup)
             child_text == StrippedText(c, c.soup)
             elements == XPathContainsText(c, child_text)
             last_element == elements[Len(elements)]
         IN IF EndsWith(parent_text, child_text) /\ elements # <<>>
                  /\ getparent(c, last_element) # 0
            THEN Outcome(Remove(c, last_element), <<tostring(c, last_element)>>,
                         <<last_element>>, NoSeen)
            ELSE Outcome(c, <<>>, <<>>, NoSeen)
    ELSE Outcome(c, <<>>, <<>>, NoSeen)

-----------------------------------------------------------------------------
(* The same operations in clear_hp.py *)

hp_is_empty_element(d, e) ==
    IF d.nd[e].kind = "comment" THEN FALSE
    ELSE ~(StrippedText(d, e) # <<>> \/ Kids(d, e) # {})

RECURSIVE HpRemoveEmptyLoop(_, _)
HpRemoveEmptyLoop(d, es) ==
    IF es = <<>> THEN d
    ELSE LET e == Head(es)
         IN HpRemoveEmptyLoop(
                IF hp_is_empty_element(d, e) /\ getparent(d, e) # 0
                THEN Remove(d, e) ELSE d,
                Tail(es))

hp_remove_empty_elements(d) == HpRemoveEmptyLoop(d, Reverse(Iter(d, d.soup)))

hp_remove_similar_elements(r, d) ==
    LET o == SimilarLoop(Outcome(d, <<>>, <<>>, NoSeen), XPathAll(d),
                         parent_text_dict(r))
    IN Outcome(hp_remove_empty_elements(o.doc), o.deleted, o.removed, o.seen)

hp_compare_endings(p, c) ==
    LET parent_end == StrippedText(p, p.soup)
        child_end == StrippedText(c, c.soup)
        elements == XPathContainsText(c, parent_end)
        last_element == elements[Len(elements)]
    IN IF parent_end = child_end /\ elements # <<>>
          /\ getparent(c, last_element) # 0
       THEN Outcome(Remove(c, last_element), <<tostring(c, last_element)>>,
                    <<last_element>>, NoSeen)
       ELSE Outcome(c, <<>>, <<>>, NoSeen)

-----------------------------------------------------------------------------
(* Records and their processing *)

\* A record (a dict of the JSON file): keys holds the optional keys present.
Company(url, p_url, body_html, keys, del_html, del_text) ==
    [url |-> url, p_url |-> p_url, body_html |-> body_html, keys |-> keys,
     body_html_new |-> <<>>, body_new |-> <<>>,
     body_html_deleted |-> del_html, body_deleted |-> del_text]

NoOutcome(d) == Outcome(d, <<>>, <<>>, NoSeen)

\* What one record's processing did, kept for the properties: the record's
\* own parsed tree, the other record's parsed tree, whether the two
\* cross-document steps were called, the outcome of each step and the final
\* tree.
Steps(role, own, other, ran, fo, eo, so, final) ==
    [role |-> role, own |-> own, other |-> other, ran |-> ran, fo |-> fo,
     eo |-> eo, so |-> so, final |-> final]

NoSteps == Steps("none", None, None, FALSE, NoOutcome(None), NoOutcome(None),
                 NoOutcome(None), None)

\* html.fromstring(content).text_content().strip() of a deleted fragment.
RECURSIVE FragmentChars(_)
FragmentChars(frag) ==
    IF frag = <<>> THEN <<>>
    ELSE (IF Head(frag).k = "chr" THEN <<Head(frag).tag>> ELSE <<>>)
            \o FragmentChars(Tail(frag))

FragmentText(frag) == Strip(FragmentChars(frag))

ChildData(recs) == SelectSeq(recs, LAMBDA c : c.p_url # "")

ProcessParentSteps(company, child_data) ==
    LET parent_soup == parse_html(company.body_html)
        random_child_soup ==
            IF child_data # <<>> THEN parse_html(child_data[1].body_html) ELSE None
        ran == parent_soup # None /\ random_child_soup # None
        fo == IF parent_soup # None
              THEN remove_common_footers(parent_soup) ELSE NoOutcome(parent_soup)
        eo == IF ran
              THEN compare_endings(fo.doc, random_child_soup)
              ELSE NoOutcome(random_child_soup)
        so == IF ran
              THEN remove_similar_elements(eo.doc, fo.doc)
              ELSE NoOutcome(fo.doc)
    IN Steps("parent", parent_soup, random_child_soup, ran, fo, eo, so,
             IF parent_soup # None THEN remove_empty_elements(so.doc) ELSE None)

process_parent_company(company, child_data) ==
    LET st == ProcessParentSteps(company, child_data)
        deleted_content == st.fo.deleted \o st.eo.deleted \o st.so.deleted
        allkeys == company.keys \cup
                   {"body_html_new", "body_new", "body_html_deleted", "body_deleted"}
    IN IF st.own # None
       THEN [company EXCEPT
                !.body_html_new = tostring(st.final, st.final.soup),
                !.body_new = StrippedText(st.final, st.final.soup),
                !.body_html_deleted = Join(deleted_content),
                !.body_deleted =
                    Join([i \in DOMAIN deleted_content |->
                             FragmentText(deleted_content[i])]),
                !.keys = allkeys]
       ELSE [company EXCEPT
                !.body_html_new = <<>>, !.body_new = <<>>,
                !.body_html_deleted = <<>>, !.body_deleted = <<>>,
                !.keys = allkeys]

PotentialParents(parent_data) == SelectSeq(parent_data, LAMBDA c : c.p_url = "")

ProcessChildSteps(company, parent_data) ==
    LET potential_parents == PotentialParents(parent_data)
        parent_soup ==
            IF potential_parents # <<>>
            THEN parse_html(potential_parents[1].body_html) ELSE None
        child_soup == parse_html(company.body_html)
        ran == child_soup # None /\ parent_soup # None
        fo == IF child_soup # None
              THEN remove_common_footers(child_soup) ELSE NoOutcome(child_soup)
        so == IF ran
              THEN remove_similar_elements(parent_soup, fo.doc)
              ELSE NoOutcome(fo.doc)
        eo == IF ran
              THEN compare_endings(parent_soup, so.doc)
              ELSE NoOutcome(so.doc)
    IN Steps("child", child_soup, parent_soup, ran, fo, eo, so,
             IF child_soup # None THEN remove_empty_elements(eo.doc) ELSE None)

process_child_company(company, parent_data) ==
    LET st == ProcessChildSteps(company, parent_data)
    IN IF st.own # None
       THEN [company EXCEPT
                !.body_html_new = tostring(st.final, st.final.soup),
                !.body_new = StrippedText(st.final, st.final.soup),
                !.body_html_deleted = <<>>,
                !.body_deleted = <<>>,
                !.keys = (company.keys \cup {"body_html_new", "body_new"})
                            \ {"body_html_deleted", "body_deleted"}]
       ELSE [company EXCEPT
                !.body_html_new = <<>>, !.body_new = <<>>,
                !.keys = company.keys \cup {"body_html_new", "body_new"}]

clean_empty_elements_in_body_html_new(company) ==
    IF "body_html_new" \in company.keys /\ company.body_html_new # <<>>
    THEN LET soup == remove_empty_elements(parse_html(company.body_html_new))
         IN [company EXCEPT !.body_html_new = tostring(soup, soup.soup)]
    ELSE company

-----------------------------------------------------------------------------
(* Generated documents *)

RECURSIVE IsAncOrSelf(_, _, _)
IsAncOrSelf(p, a, i) == i = a \/ (i # 0 /\ p[i] # 0 /\ IsAncOrSelf(p, a, p[i]))

\* Parent vectors of the trees with n nodes numbered in document order.
ParVecs(n) ==
    {p \in [1..n -> 0..(n - 1)] :
        /\ p[1] = 0
        /\ \A i \in 2..n : p[i] >= 1 /\ p[i] < i /\ IsAncOrSelf(p, p[i], i - 1)}

\* The trees with n nodes: a root element and nodes of the palette, where only
\* elements have children.
Cores(n, roots, palette) ==
    {c \in {[par |-> p, nd |-> <<r>> \o t, soup |-> 1] :
                p \in ParVecs(n), r \in roots, t \in [1..(n - 1) -> palette]} :
        \A i \in 2..n : c.nd[c.par[i]].kind = "elem"}

DocsUpTo(maxn, roots, palette, wraps) ==
    {Wrap(c, w) : c \in UNION {Cores(n, roots, palette) : n \in 1..maxn},
                  w \in wraps}

WrapKinds == {0, 1, 2}

Idle == [kind |-> "idle"]

-----------------------------------------------------------------------------
(* Specification of the Emptiness Pruner: a pass, then a second pass *)

PruneRoots == {Elem("div", {}, <<>>, <<>>)}

PrunePalette ==
    {Elem("span", {}, <<>>, <<>>),
     Elem("span", {}, <<" ">>, <<>>),
     Elem("span", {}, <<"a">>, <<>>),
     Elem("span", {<<"id", <<"x">>>>}, <<>>, <<>>),
     Elem("span", {}, <<>>, <<"a">>),
     Comment(<<>>),
     Comment(<<"a">>)}

PruneInit ==
    /\ pc = "start"
    /\ tgt \in DocsUpTo(MaxPruneNodes, PruneRoots, PrunePalette, WrapKinds)
    /\ ref = None
    /\ snap = None
    /\ res = Idle
    /\ data = <<>>
    /\ idx = 0
    /\ updated_data = <<>>
    /\ hist = <<>>

PruneOnce ==
    /\ pc = "start"
    /\ tgt' = remove_empty_elements(tgt)
    /\ snap' = tgt
    /\ pc' = "once"
    /\ UNCHANGED <<ref, res, data, idx, updated_data, hist>>

PruneTwice ==
    /\ pc = "once"
    /\ tgt' = remove_empty_elements(tgt)
    /\ snap' = tgt
    /\ pc' = "twice"
    /\ UNCHANGED <<ref, res, data, idx, updated_data, hist>>

PruneNext == PruneOnce \/ PruneTwice

PruneSpec == PruneInit /\ [][PruneNext]_vars

\* The nodes of the tree below the processed root.
NonRoot(d) == Desc(d, d.soup) \ {d.soup}

-----------------------------------------------------------------------------
(* Specification of the Boilerplate Matcher on one tree *)

FooterRoots == {Elem("div", {}, <<>>, <<>>), Elem("footer", {}, <<"a">>, <<>>)}

FooterPalette ==
    {Elem("footer", {}, <<"a">>, <<>>),
     Elem("div", {<<"class", <<"site", "footer">>>>}, <<"a">>, <<>>),
     Elem("div", {<<"id", <<"legal">>>>}, <<"a">>, <<"b">>),
     Elem("div", {<<"class", <<"legal">>>>}, <<"a">>, <<>>),
     Elem("span", {<<"class", <<"footer">>>>}, <<"a">>, <<>>),
     Elem("div", {}, <<>>, <<>>),
     Elem("span", {}, <<"b">>, <<>>)}

FooterInit ==
    /\ pc = "start"
    /\ tgt \in DocsUpTo(MaxNodes, FooterRoots, FooterPalette, WrapKinds)
    /\ ref = None
    /\ snap = None
    /\ res = Idle
    /\ data = <<>>
    /\ idx = 0
    /\ updated_data = <<>>
    /\ hist = <<>>

DoRemoveCommonFooters ==
    /\ pc = "start"
    /\ res' = remove_common_footers(tgt)
    /\ tgt' = res'.doc
    /\ snap' = tgt
    /\ pc' = "footers"
    /\ UNCHANGED <<ref, data, idx, updated_data, hist>>

FooterNext == DoRemoveCommonFooters

FooterSpec == FooterInit /\ [][FooterNext]_vars

FooterWords == {"footer", "bottom", "copyright", "legal"}

IsFooterLike(d, e) ==
    /\ IsElement(d, e)
    /\ \/ d.nd[e].tag = "footer"
       \/ \E an \in {"class", "id"} : \E sub \in FooterWords :
              AttrContains(d, e, an, sub)

\* The tree after the first k removals of a removal sequence.
RECURSIVE DocAfter(_, _, _)
DocAfter(d, removed, k) ==
    IF k = 0 THEN d ELSE Remove(DocAfter(d, removed, k - 1), removed[k])

\* Each fragment is the serialization of the removed element as it stood when
\* it was removed, in removal order.
CapturedInOrder(d0, o) ==
    /\ Len(o.deleted) = Len(o.removed)
    /\ \A i \in DOMAIN o.removed :
          o.deleted[i] = tostring(DocAfter(d0, o.removed, i - 1), o.removed[i])

\* C9: after remove_common_footers no element below the root is a footer tag
\* or has a class or id holding footer, bottom, copyright or legal, and the
\* returned sequence is the removed elements' HTML in removal order.
FootersAllRemoved ==
    pc = "footers" =>
        /\ \A e \in NonRoot(tgt) : ~IsFooterLike(tgt, e)
        /\ CapturedInOrder(snap, res)

-----------------------------------------------------------------------------
(* Specification of the two cross-document operations on a pair of trees *)

\* Largest number of nodes of a generated reference document.
MaxRefNodes == 2

PairRoots == {Elem("div", {}, <<>>, <<>>)}

PairPalette ==
    {Elem("span", {}, <<"a">>, <<>>),
     Elem("span", {}, <<"b">>, <<>>),
     Elem("span", {}, <<>>, <<>>),
     Elem("span", {}, <<"a">>, <<"b">>),
     Comment(<<"b">>)}

PairWraps == {0, 2}

PairInit ==
    /\ pc = "start"
    /\ ref \in DocsUpTo(MaxRefNodes, PairRoots, PairPalette, {2}) \cup {None}
    /\ tgt \in DocsUpTo(MaxNodes, PairRoots, PairPalette, PairWraps)
    /\ snap = None
    /\ res = Idle
    /\ data = <<>>
    /\ idx = 0
    /\ updated_data = <<>>
    /\ hist = <<>>

DoRemoveSimilarElements ==
    /\ pc = "start"
    /\ res' = remove_similar_elements(ref, tgt)
    /\ tgt' = res'.doc
    /\ snap' = tgt
    /\ pc' = "similar"
    /\ UNCHANGED <<ref, data, idx, updated_data, hist>>

DoCompareEndings ==
    /\ pc = "start"
    /\ res' = compare_endings(ref, tgt)
    /\ tgt' = res'.doc
    /\ snap' = tgt
    /\ pc' = "endings"
    /\ UNCHANGED <<ref, data, idx, updated_data, hist>>

DoHpRemoveSimilarElements ==
    /\ pc = "start"
    /\ ref # None
    /\ res' = hp_remove_similar_elements(ref, tgt)
    /\ tgt' = res'.doc
    /\ snap' = tgt
    /\ pc' = "similar"
    /\ UNCHANGED <<ref, data, idx, updated_data, hist>>

DoHpCompareEndings ==
    /\ pc = "start"
    /\ ref # None
    /\ res' = hp_compare_endings(ref, tgt)
    /\ tgt' = res'.doc
    /\ snap' = tgt
    /\ pc' = "endings"
    /\ UNCHANGED <<ref, data, idx, updated_data, hist>>

PairNext ==
    \/ DoRemoveSimilarElements
    \/ DoCompareEndings
    \/ DoHpRemoveSimilarElements
    \/ DoHpCompareEndings

PairSpec == PairInit /\ [][PairNext]_vars

\* The elements of the tree that holds the processed root.
TreeElements(d) == {e \in Desc(d, RootOf(d, d.soup)) : IsElement(d, e)}

\* C2 as claimed: after remove_similar_elements every element still in the
\* target tree, the root included, has a trimmed text that is no key of the
\* reference's text map.
SimilarSoundAfter ==
    pc = "similar" /\ ref # None =>
        \A e \in TreeElements(tgt) : StrippedText(tgt, e) \notin parent_text_dict(ref)

\* C2 as amended: every element still in the target tree that has a parent
\* had, when the walk reached it, a trimmed text that is no key of the
\* reference's text map.
SimilarSoundAtVisit ==
    pc = "similar" /\ ref # None =>
        \A e \in TreeElements(tgt) :
            tgt.par[e] # 0 => res.seen[e] \notin parent_text_dict(ref)

\* A call that removed a duplicate and left an element with text below the root.
SimilarRemovedAndKept ==
    /\ pc = "similar"
    /\ res.removed # <<>>
    /\ \E e \in TreeElements(tgt) : tgt.par[e] # 0 /\ StrippedText(tgt, e) # <<>>

\* C10: in one call no element is removed (and captured) that lies inside the
\* subtree of an element removed earlier in the call.
SimilarNoNestedCapture ==
    pc = "similar" =>
        \A i \in DOMAIN res.removed : \A j \in DOMAIN res.removed :
            i < j => ~InSubtree(snap, res.removed[i], res.removed[j])

\* C3: a call of compare_endings detaches nothing, changes the text of at most
\* one element and only by cutting a suffix off it, and changes nothing when
\* the parent's text does not end with the child's or either text is empty.
EndingsOnlyTruncate ==
    pc = "endings" =>
        /\ tgt.par = snap.par
        /\ Cardinality({e \in Ids(tgt) : tgt.nd[e] # snap.nd[e]}) <= 1
        /\ \A e \in Ids(tgt) :
              /\ tgt.nd[e].tail = snap.nd[e].tail
              /\ \E k \in 0..Len(snap.nd[e].text) :
                    tgt.nd[e].text = SubSeq(snap.nd[e].text, 1, k)
        /\ (\/ ref = None
            \/ StrippedText(snap, snap.soup) = <<>>
            \/ StrippedText(ref, ref.soup) = <<>>
            \/ ~EndsWith(StrippedText(ref, ref.soup), StrippedText(snap, snap.soup)))
              => tgt = snap
-----------------------------------------------------------------------------
(* Specification of process_file on one batch of records *)

\* Largest number of nodes of a record's body_html, and of records in a file.
MaxFamNodes == 3
MaxRecords == 2

FamRoots == {Elem("div", {}, <<>>, <<>>)}

FamPalette ==
    {Elem("footer", {}, <<"a">>, <<>>),
     Elem("span", {}, <<"a">>, <<>>),
     Elem("span", {}, <<"b">>, <<>>)}

\* body_html values: absent or empty, or the markup of a generated tree.
FamContents(maxn) ==
    {<<>>} \cup
    {tostring(c, 1) :
        c \in UNION {Cores(n, FamRoots, FamPalette) : n \in 1..maxn}}

Urls == <<"A", "B", "C">>

StaleDeleted == <<Tok("chr", "b", {})>>

\* The i-th record of a file: a parent, or a child of A or of a page Z that
\* the file does not hold; a child may come with deleted-content keys.
RecordsAt(i, contents) ==
    {Company(Urls[i], "", h, {}, <<>>, <<>>) : h \in contents}
    \cup {Company(Urls[i], pu, h, {}, <<>>, <<>>) :
              pu \in {"A", "Z"}, h \in contents}
    \cup {Company(Urls[i], pu, h, {"body_html_deleted", "body_deleted"},
                  StaleDeleted, <<"b">>) :
              pu \in {"A", "Z"}, h \in contents}

Batches(maxr, contents) ==
    UNION {{b \in [1..n -> UNION {RecordsAt(i, contents) : i \in 1..n}] :
                \A i \in 1..n : b[i] \in RecordsAt(i, contents)} : n \in 1..maxr}

FamInit ==
    /\ pc = "start"
    /\ data \in Batches(MaxRecords, FamContents(MaxFamNodes))
    /\ idx = 0
    /\ updated_data = <<>>
    /\ hist = [i \in DOMAIN data |-> NoSteps]
    /\ ref = None
    /\ tgt = None
    /\ snap = None
    /\ res = Idle

HasBodyHtml == \E i \in DOMAIN data : data[i].body_html # <<>>

\* The positions in data of the records of child_data, in order.
ChildIndexes == SortedSeq({i \in DOMAIN data : data[i].p_url # ""})

\* parent_data when the record at position i is reached in the first loop, and
\* after that loop.
ParentData(upto) ==
    SelectSeq(SubSeq(data, 1, upto), LAMBDA c : c.p_url = "")

SkipFile ==
    /\ pc = "start"
    /\ ~HasBodyHtml
    /\ pc' = "skipped"
    /\ UNCHANGED <<ref, tgt, snap, res, data, idx, updated_data, hist>>

StartFile ==
    /\ pc = "start"
    /\ HasBodyHtml
    /\ pc' = "parents"
    /\ idx' = 1
    /\ UNCHANGED <<ref, tgt, snap, res, data, updated_data, hist>>

ParentPage ==
    /\ pc = "parents"
    /\ idx <= Len(data)
    /\ data[idx].p_url = ""
    /\ data' = [data EXCEPT ![idx] = process_parent_company(data[idx], ChildData(data))]
    /\ hist' = [hist EXCEPT ![idx] = ProcessParentSteps(data[idx], ChildData(data))]
    /\ updated_data' = Append(updated_data, idx)
    /\ idx' = idx + 1
    /\ UNCHANGED <<pc, ref, tgt, snap, res>>

OtherPage ==
    /\ pc = "parents"
    /\ idx <= Len(data)
    /\ data[idx].p_url # ""
    /\ idx' = idx + 1
    /\ UNCHANGED <<pc, ref, tgt, snap, res, data, updated_data, hist>>

ParentsDone ==
    /\ pc = "parents"
    /\ idx > Len(data)
    /\ pc' = "children"
    /\ idx' = 1
    /\ UNCHANGED <<ref, tgt, snap, res, data, updated_data, hist>>

ChildPage ==
    /\ pc = "children"
    /\ idx <= Len(ChildIndexes)
    /\ LET i == ChildIndexes[idx]
       IN /\ data' = [data EXCEPT
                         ![i] = process_child_company(data[i], ParentData(Len(data)))]
          /\ hist' = [hist EXCEPT
                         ![i] = ProcessChildSteps(data[i], ParentData(Len(data)))]
          /\ updated_data' = Append(updated_data, i)
    /\ idx' = idx + 1
    /\ UNCHANGED <<pc, ref, tgt, snap, res>>

ChildrenDone ==
    /\ pc = "children"
    /\ idx > Len(ChildIndexes)
    /\ pc' = "clean"
    /\ UNCHANGED <<ref, tgt, snap, res, data, idx, updated_data, hist>>

CleanAndSave ==
    /\ pc = "clean"
    /\ data' = [i \in DOMAIN data |->
                   IF \E k \in DOMAIN updated_data : updated_data[k] = i
                   THEN clean_empty_elements_in_body_html_new(data[i]) ELSE data[i]]
    /\ pc' = "done"
    /\ UNCHANGED <<ref, tgt, snap, res, idx, updated_data, hist>>

FamNext ==
    \/ SkipFile
    \/ StartFile
    \/ ParentPage
    \/ OtherPage
    \/ ParentsDone
    \/ ChildPage
    \/ ChildrenDone
    \/ CleanAndSave

FamSpec == FamInit /\ [][FamNext]_vars

-----------------------------------------------------------------------------
(* Properties of process_file *)

Processed(i, role) == hist[i].role = role

\* The positions of the parent record of the family of the record at i.
FamilyParents(i) ==
    {j \in DOMAIN data : data[j].p_url = "" /\ data[j].url = data[i].p_url}

TextKeys(d) == IF d = None THEN {} ELSE parent_text_dict(d)

SoupText(d) == IF d = None THEN <<>> ELSE StrippedText(d, d.soup)

\* The tree of a record's pruned output.
PrunedTree(j) == parse_html(data[j].body_html_new)

\* C1: a text of the parent's raw body_html that the parent's own pruning
\* removed, and that its pruned output does not hold, is never the reference
\* text by which an element of a child of the family is removed, neither by
\* the Duplicate Text Remover nor by the Tail Overlap Resolver.
ChildSeesPrunedParent ==
    \A i \in DOMAIN data : \A j \in FamilyParents(i) :
        Processed(i, "child") /\ Processed(j, "parent") =>
            /\ \A k \in DOMAIN hist[i].so.removed :
                  LET t == hist[i].so.seen[hist[i].so.removed[k]]
                  IN ~(t \in TextKeys(hist[j].own) /\ t \notin TextKeys(PrunedTree(j)))
            /\ hist[i].eo.removed # <<>> =>
                  EndsWith(SoupText(PrunedTree(j)), SoupText(hist[i].so.doc))

\* C5: no child record of the written file has a body_html_deleted or a
\* body_deleted key.
ChildHasNoDeletedKeys ==
    pc = "done" =>
        \A k \in DOMAIN updated_data :
            data[updated_data[k]].p_url # "" =>
                data[updated_data[k]].keys \cap {"body_html_deleted", "body_deleted"} = {}

\* C6: a child whose p_url is the url of no parent record of the file is
\* pruned without a reference document: neither the Duplicate Text Remover
\* nor the Tail Overlap Resolver runs against another record's tree.
MissingParentStructuralOnly ==
    \A i \in DOMAIN data :
        Processed(i, "child") /\ FamilyParents(i) = {} =>
            /\ ~hist[i].ran
            /\ hist[i].so.removed = <<>>
            /\ hist[i].eo.removed = <<>>

\* C7: processing a parent leaves the representative child's parsed tree as
\* it was parsed.
ParentOnlyTreeMutated ==
    \A i \in DOMAIN data :
        Processed(i, "parent") => hist[i].eo.doc = hist[i].other

\* The fragments of the removals of an outcome whose element was, when it was
\* removed, attached to the document that started as d0.
RECURSIVE OwnFragmentsFrom(_, _, _)
OwnFragmentsFrom(d0, o, k) ==
    IF k > Len(o.removed) THEN <<>>
    ELSE (IF RootOf(DocAfter(d0, o.removed, k - 1), o.removed[k]) = 1
          THEN <<o.deleted[k]>> ELSE <<>>)
            \o OwnFragmentsFrom(d0, o, k + 1)

OwnFragments(d0, o) == OwnFragmentsFrom(d0, o, 1)

\* C8: a parsable parent's body_html_deleted is the concatenation, in removal
\* order, of the HTML of the elements removed from the parent's own tree, and
\* of nothing else.
ParentDeletedIsOwnRemovals ==
    \A i \in DOMAIN data :
        Processed(i, "parent") /\ hist[i].own # None =>
            data[i].body_html_deleted =
                Join(OwnFragments(hist[i].own, hist[i].fo)
                        \o OwnFragments(hist[i].fo.doc, hist[i].so))
====
